---------------------------- MODULE Spec2Model ----------------------------
(***************************************************************************)
(* Model of the LVK chatbot pattern-matching tree (Lvk::Nlp::Tree,         *)
(* src/src/chatbot/nlp-engine/tree.cpp): rule insertion (add / addNode /   *)
(* addNodeOutput) and query evaluation (getResponse / getResponses /       *)
(* scoredDFS / handleEndWord / getValidOutput / expandVars /               *)
(* getRecResponse).                                                        *)
(*                                                                         *)
(* A QString is a sequence of one-character strings.  The call stack of a  *)
(* query is the variable `frames`; every action is one step of the code.   *)
(***************************************************************************)
EXTENDS Integers, Sequences, FiniteSets, TLC

(***************************************************************************)
(* Bounds of the model.                                                    *)
(***************************************************************************)
\* number of add(rule) calls in a behaviour
MaxRules == 2
\* number of tokens of a top-level utterance
MaxUtter == 2
\* the cap on the depth of nested expansions that the design asks for (64 by
\* default), scaled to the trees of MaxRules rules
ExpansionCap == 1
\* number of add(rule) calls in a behaviour of SpecKey
MaxKeyed == 2

(***************************************************************************)
(* Program constants.                                                      *)
(***************************************************************************)
MAX_INPUT_IDX_SIZE == 10

Pow2(n) == 2 ^ n

INPUT_IDX_MASK == Pow2(MAX_INPUT_IDX_SIZE) - 1

STAR_OP == <<"*">>

PLUS_OP == <<"+">>

(***************************************************************************)
(* QString helpers.                                                        *)
(***************************************************************************)
\* QString::mid(position, n), position 0-based; n < 0 means "to the end"
Mid(s, position, n) ==
    IF position >= Len(s) \/ position < 0 THEN <<>>
    ELSE LET last == IF n < 0 \/ position + n > Len(s) THEN Len(s) ELSE position + n
         IN  SubSeq(s, position + 1, last)

RECURSIVE SplitFrom(_, _, _, _)
\* the whitespace-separated tokens of s, scanning from (1-based) index i
SplitFrom(s, i, cur, acc) ==
    IF i > Len(s)
    THEN IF cur = <<>> THEN acc ELSE Append(acc, cur)
    ELSE IF s[i] = " "
         THEN SplitFrom(s, i + 1, <<>>, IF cur = <<>> THEN acc ELSE Append(acc, cur))
         ELSE SplitFrom(s, i + 1, Append(cur, s[i]), acc)

RECURSIVE JoinWords(_)
\* the strings of a list joined by single blanks
JoinWords(l) ==
    IF l = <<>> THEN <<>>
    ELSE IF Len(l) = 1 THEN l[1]
    ELSE l[1] \o <<" ">> \o JoinWords(Tail(l))

\* QChar::toLower on the alphabet of the model
LowerChar(c) == IF c = "Q" THEN "q" ELSE IF c = "P" THEN "p" ELSE c

ToLower(s) == [i \in 1..Len(s) |-> LowerChar(s[i])]

(***************************************************************************)
(* Nlp::Word and the lemmatizer (external collaborators).                  *)
(***************************************************************************)
MkWord(tok) == [origWord |-> tok, normWord |-> ToLower(tok)]

\* Lemmatizer::lemmatize: one Word per whitespace-separated token
Lemmatize(s) ==
    LET toks == SplitFrom(s, 1, <<>>, <<>>)
    IN  [i \in 1..Len(toks) |-> MkWord(toks[i])]

IsWildcard(w) == w.origWord = STAR_OP \/ w.origWord = PLUS_OP

IsVariable(w) ==
    /\ Len(w.origWord) >= 3
    /\ w.origWord[1] = "["
    /\ w.origWord[Len(w.origWord)] = "]"

IsSymbol(w) == w.origWord \in {<<".">>, <<",">>, <<"?">>}

IsWord(w) == ~IsWildcard(w) /\ ~IsVariable(w) /\ ~IsSymbol(w)

\* Tree::filterSymbols
FilterSymbols(words) == SelectSeq(words, LAMBDA w : ~IsSymbol(w))

\* Tree::parseExactMatch
ParseExactMatch(words) ==
    [i \in 1..Len(words) |->
        LET w == words[i].origWord
        IN  IF Len(w) >= 3 /\ w[1] = "'" /\ w[Len(w)] = "'"
            THEN LET lw == ToLower(Mid(w, 1, Len(w) - 2))
                 IN  [origWord |-> lw, normWord |-> lw]
            ELSE words[i]]

\* Tree::parseRuleInput
ParseRuleInput(input) == FilterSymbols(ParseExactMatch(Lemmatize(input)))

\* parseUserInput without filterSymbols
ParseUserInputKeepSymbols(input) ==
    Lemmatize(SelectSeq(input, LAMBDA c : c # "'"))

\* Tree::parseUserInput
ParseUserInput(input) ==
    FilterSymbols(Lemmatize(SelectSeq(input, LAMBDA c : c # "'")))

(***************************************************************************)
(* Omap keys.                                                              *)
(***************************************************************************)
\* getOmapId with the rule id shifted by one bit less than the mask is wide
getOmapIdShortShift(ruleId, inputIdx) ==
    (inputIdx % (INPUT_IDX_MASK + 1)) + ruleId * Pow2(MAX_INPUT_IDX_SIZE - 1)

\* (inputIdx & INPUT_IDX_MASK) + (ruleId << MAX_INPUT_IDX_SIZE); the rule ids of
\* the model are far below 2^54, so the quint64 sum never wraps
getOmapId(ruleId, inputIdx) ==
    (inputIdx % (INPUT_IDX_MASK + 1)) + ruleId * Pow2(MAX_INPUT_IDX_SIZE)

getRuleId(id) == id \div Pow2(MAX_INPUT_IDX_SIZE)

getInputIndex(id) == id % (INPUT_IDX_MASK + 1)

(***************************************************************************)
(* Nodes.  The tree is an arena: `nodes` is a sequence of node records,    *)
(* a node is named by its index, the root is node 1 and has parent 0.      *)
(* childs holds node indices (a wildcard / variable node holds itself).    *)
(* omap is the QMap as the list of its (key, value) pairs in ascending key *)
(* order, the order in which a QMap is iterated.                           *)
(***************************************************************************)
ROOT == 1

RootNode ==
    [kind |-> "root", word |-> <<>>, min |-> 0, parent |-> 0,
     childs |-> <<>>, omap |-> <<>>]

\* WordNode(word, parent)
WordNode(word, parent) ==
    [kind |-> "word", word |-> word, min |-> 0, parent |-> parent,
     childs |-> <<>>, omap |-> <<>>]

\* WildcardNode(origWord, parent): min is 1 for +, 0 for *
WildcardNode(origWord, parent) ==
    [kind |-> "wildcard", word |-> origWord,
     min |-> IF origWord = PLUS_OP THEN 1 ELSE 0, parent |-> parent,
     childs |-> <<>>, omap |-> <<>>]

\* VariableNode(varName, parent)
VariableNode(varName, parent) ==
    [kind |-> "variable", word |-> varName, min |-> 0, parent |-> parent,
     childs |-> <<>>, omap |-> <<>>]

\* the indices i of seq with P(seq[i])
Indices(seq, P(_)) == {i \in 1..Len(seq) : P(seq[i])}

Min(S) == CHOOSE x \in S : \A y \in S : x <= y

Max(S) == CHOOSE x \in S : \A y \in S : x >= y


(***************************************************************************)
(* Tree builder.                                                           *)
(***************************************************************************)
\* the first child of parent that is a WordNode for word, or 0
FindWordChild(nodes, word, parent) ==
    LET hits == Indices(nodes[parent].childs,
                        LAMBDA c : nodes[c].kind = "word" /\ nodes[c].word = word)
    IN  IF hits = {} THEN 0 ELSE nodes[parent].childs[Min(hits)]

\* the first child of parent that is a WildcardNode, or 0
FindWildcardChild(nodes, parent) ==
    LET hits == Indices(nodes[parent].childs, LAMBDA c : nodes[c].kind = "wildcard")
    IN  IF hits = {} THEN 0 ELSE nodes[parent].childs[Min(hits)]

\* the new node of addNode, with its loop edge
NewNode(word, parent, id) ==
    IF IsWildcard(word)
    THEN [WildcardNode(word.origWord, parent) EXCEPT !.childs = <<id>>]
    ELSE IF IsVariable(word)
    THEN [VariableNode(Mid(word.origWord, 1, Len(word.origWord) - 2), parent)
            EXCEPT !.childs = <<id>>]
    ELSE WordNode(word, parent)

\* whether addNode also links the new node from parent->parent
ZeroMinParent(nodes, parent) ==
    nodes[parent].kind = "wildcard" /\ nodes[parent].min = 0

\* addNode reusing a WildcardNode without touching its min
LowerMinNever(nodes, word, wc) == nodes

\* addNode reusing the WildcardNode wc for word: a * lowers the min of a +
LowerMin(nodes, word, wc) ==
    IF word.origWord = STAR_OP /\ nodes[wc].min = 1
    THEN [nodes EXCEPT ![wc].min = 0]
    ELSE nodes

\* Tree::addNode: [nodes |-> the tree afterwards, node |-> the node returned]
addNode(nodes, word, parent) ==
    LET wn == IF IsWord(word) THEN FindWordChild(nodes, word, parent) ELSE 0
        wc == IF IsWildcard(word) THEN FindWildcardChild(nodes, parent) ELSE 0
    IN  IF wn # 0 THEN [nodes |-> nodes, node |-> wn]
        ELSE IF wc # 0
        THEN [nodes |-> LowerMin(nodes, word, wc), node |-> wc]
        ELSE LET id == Len(nodes) + 1
                 n1 == Append(nodes, NewNode(word, parent, id))
                 n2 == [n1 EXCEPT ![parent].childs = Append(@, id)]
                 n3 == IF ZeroMinParent(n2, parent)
                       THEN [n2 EXCEPT ![n2[parent].parent].childs = Append(@, id)]
                       ELSE n2
             IN  [nodes |-> n3, node |-> id]

RECURSIVE addWords(_, _, _, _)
\* the foreach of Tree::add: addNode for words[i..], starting below curNode
addWords(nodes, words, i, curNode) ==
    IF i > Len(words) THEN [nodes |-> nodes, node |-> curNode]
    ELSE LET r == addNode(nodes, words[i], curNode)
         IN  addWords(r.nodes, words, i + 1, r.node)

\* omap[key] = l on a QMap kept as its ascending list of pairs
OmapInsert(omap, key, l) ==
    LET below == SelectSeq(omap, LAMBDA e : e.key < key)
        above == SelectSeq(omap, LAMBDA e : e.key > key)
    IN  below \o <<[key |-> key, outputs |-> l]>> \o above

\* add without the second onodes.insert for a trailing *
InputONodesTerminalOnly(nodes, words, i, curNode) == {<<i, curNode>>}

\* add without the test curNode->parent != m_root
InputONodesAnyParent(nodes, words, i, curNode) ==
    {<<i, curNode>>} \cup
    (IF words[Len(words)].normWord = STAR_OP
     THEN {<<i, nodes[curNode].parent>>} ELSE {})

\* add with the inputs of a rule counted from 1
InputONodesOneBased(nodes, words, i, curNode) ==
    {<<i + 1, curNode>>} \cup
    (IF words[Len(words)].normWord = STAR_OP /\ nodes[curNode].parent # ROOT
     THEN {<<i + 1, nodes[curNode].parent>>} ELSE {})

\* the PairedNodes that input #i of a rule adds to onodes
InputONodes(nodes, words, i, curNode) ==
    {<<i, curNode>>} \cup
    (IF words[Len(words)].normWord = STAR_OP /\ nodes[curNode].parent # ROOT
     THEN {<<i, nodes[curNode].parent>>} ELSE {})

RECURSIVE addInputs(_, _, _, _)
\* the for loop of Tree::add over rule.input(), from (0-based) input #i: the
\* iterations of the inputs without words do nothing (continue), so the loop
\* goes on at the next input #j that has words
addInputs(nodes, inputs, i, onodes) ==
    LET rest == {j \in i..(Len(inputs) - 1) : ParseRuleInput(inputs[j + 1]) # <<>>}
    IN  IF rest = {} THEN [nodes |-> nodes, onodes |-> onodes]
        ELSE LET j == Min(rest)
                 words == ParseRuleInput(inputs[j + 1])
                 r == addWords(nodes, words, 1, ROOT)
             IN  addInputs(r.nodes, inputs, j + 1,
                           onodes \cup InputONodes(r.nodes, words, j, r.node))

\* Tree::addNodeOutput
addNodeOutput(nodes, rule, onodes) ==
    [n \in 1..Len(nodes) |->
        LET mine == {p \in onodes : p[2] = n}
            RECURSIVE put(_, _)
            put(omap, todo) ==
                IF todo = {} THEN omap
                ELSE LET p == CHOOSE q \in todo : \A q2 \in todo : q[1] <= q2[1]
                     IN  put(OmapInsert(omap, getOmapId(rule.id, p[1]), rule.output),
                             todo \ {p})
        IN  [nodes[n] EXCEPT !.omap = put(@, mine)]]

\* Tree::add
add(nodes, rule) ==
    LET r == addInputs(nodes, rule.input, 0, {})
    IN  addNodeOutput(r.nodes, rule, r.onodes)


(***************************************************************************)
(* Nlp::MatchPolicy, Nlp::ScoringAlgorithm, Nlp::VarStack,                 *)
(* Nlp::CondOutputList and the variable parser.                            *)
(***************************************************************************)
WordWeight == 3

WildcardWeight == 1

\* (*m_matchPolicy)(node, word)
MatchPolicy(n, word) ==
    IF n.kind = "word"
    THEN IF n.word.normWord = word.normWord THEN WordWeight ELSE 0
    ELSE IF n.kind \in {"wildcard", "variable"} THEN WildcardWeight ELSE 0

\* ScoringAlgorithm::updateScore: the weight of position offset replaces what
\* was recorded from that position on
updateScore(alg, offset, weight) ==
    Append(SubSeq(alg, 1, IF offset < Len(alg) THEN offset ELSE Len(alg)), weight)

RECURSIVE SumSeq(_)
SumSeq(l) == IF l = <<>> THEN 0 ELSE l[1] + SumSeq(Tail(l))

\* ScoringAlgorithm::currentScore
currentScore(alg) == SumSeq(alg)

\* VarStack::update: position offset is now owned by varName
StackUpdate(st, varName, offset) ==
    Append(SelectSeq(st, LAMBDA e : e.offset < offset),
           [name |-> varName, offset |-> offset, value |-> <<>>])

\* VarStack::capture: the word is appended to the capture at offset
StackCapture(st, word, offset) ==
    [i \in 1..Len(st) |->
        IF st[i].offset = offset
        THEN [st[i] EXCEPT !.value = JoinWords(SelectSeq(<<@, word>>, LAMBDA v : v # <<>>))]
        ELSE st[i]]

\* VarStack::value: the captures of varName, in input order
StackValue(st, varName) ==
    LET mine == SelectSeq(st, LAMBDA e : e.name = varName /\ e.value # <<>>)
    IN  JoinWords([i \in 1..Len(mine) |-> mine[i].value])

\* a condition of a CondOutputList: none, or "variable var has value val"
CondHolds(cond, st) == cond.var = <<>> \/ StackValue(st, cond.var) = cond.val

\* CondOutputList::nextValidOutput: the first template whose condition holds
NextValidOutput(l, st) ==
    LET ok == Indices(l, LAMBDA co : CondHolds(co.cond, st))
    IN  IF ok = {} THEN [isNull |-> TRUE, s |-> <<>>]
        ELSE [isNull |-> FALSE, s |-> l[Min(ok)].tpl]

\* Parser::parseVariable(output, offset, &varName, &recursive): the (0-based)
\* index of the "[" of the next reference "[name]" or "r[name]" at or after
\* offset, or -1
ParseVariable(output, offset) ==
    LET opens == {i \in offset..(Len(output) - 1) :
                    /\ output[i + 1] = "["
                    /\ \E j \in (i + 2)..(Len(output) - 1) :
                          /\ output[j + 1] = "]"
                          /\ \A k \in (i + 1)..(j - 1) : output[k + 1] \notin {"[", "]", " "}}
    IN  IF opens = {} THEN [i |-> -1, name |-> <<>>, recursive |-> FALSE]
        ELSE LET i == Min(opens)
                 j == Min({k \in (i + 2)..(Len(output) - 1) : output[k + 1] = "]"})
             IN  [i |-> i, name |-> SubSeq(output, i + 2, j),
                  recursive |-> i >= 1 /\ output[i] = "r"]

(***************************************************************************)
(* qSort(results.begin(), results.end(), highScoreFirst)                   *)
(***************************************************************************)
highScoreFirst(r1, r2) == r1.score > r2.score

\* qSwap on a list, 0-based positions
Swap(a, i, j) == [a EXCEPT ![i + 1] = a[j + 1], ![j + 1] = a[i + 1]]

SwapIf(a, i, j) == IF highScoreFirst(a[i + 1], a[j + 1]) THEN Swap(a, i, j) ELSE a

RECURSIVE PartLow(_, _, _, _)
PartLow(a, low, high, end) ==
    IF low < high /\ highScoreFirst(a[low + 1], a[end + 1])
    THEN PartLow(a, low + 1, high, end) ELSE low

RECURSIVE PartHigh(_, _, _, _)
PartHigh(a, low, high, end) ==
    IF high > low /\ highScoreFirst(a[end + 1], a[high + 1])
    THEN PartHigh(a, low, high - 1, end) ELSE high

RECURSIVE Partition(_, _, _, _)
\* the while (low < high) loop of qSortHelper
Partition(a, low, high, end) ==
    IF low < high
    THEN LET l2 == PartLow(a, low, high, end)
             h2 == PartHigh(a, l2, high, end)
         IN  IF l2 < h2 THEN Partition(Swap(a, l2, h2), l2 + 1, h2 - 1, end)
             ELSE [a |-> a, low |-> l2]
    ELSE [a |-> a, low |-> low]

RECURSIVE qSortHelper(_, _, _)
\* QtAlgorithms' qSortHelper on positions start .. end - 1 (0-based)
qSortHelper(a, start, end) ==
    LET span == end - start
        last == end - 1
        pivot == start + (span \div 2)
    IN  IF span < 2 THEN a
        ELSE LET a1 == SwapIf(a, last, start)
             IN  IF span = 2 THEN a1
                 ELSE LET a2 == SwapIf(a1, pivot, start)
                          a3 == SwapIf(a2, last, pivot)
                      IN  IF span = 3 THEN a3
                          ELSE LET a4 == Swap(a3, pivot, last)
                                   pt == Partition(a4, start, last - 1, last)
                                   low == IF highScoreFirst(pt.a[pt.low + 1], pt.a[last + 1])
                                          THEN pt.low + 1 ELSE pt.low
                                   a5 == Swap(pt.a, last, low)
                               IN  qSortHelper(qSortHelper(a5, start, low), low + 1, end)

qSort(results) == qSortHelper(results, 0, Len(results))


(***************************************************************************)
(* Expander.                                                               *)
(***************************************************************************)
RECURSIVE expandVars(_, _, _, _)
\* Tree::expandVars from local state (offset, newOutput), up to its return
\* (status "done", ok = true) or to its next call of getRecResponse (status
\* "call", with the argument of the call)
expandVars(output, offset, newOutput, st) ==
    LET pv == ParseVariable(output, offset)
    IN  IF pv.i # -1
        THEN LET varValue == StackValue(st, pv.name)
             IN  IF pv.recursive
                 THEN [status |-> "call", out |-> newOutput, offset |-> offset,
                       arg |-> varValue]
                 ELSE expandVars(output, pv.i + Len(pv.name) + 2,
                                 newOutput \o Mid(output, offset, pv.i - offset) \o varValue,
                                 st)
        ELSE [status |-> "done", out |-> newOutput \o Mid(output, offset, -1),
              offset |-> offset, arg |-> <<>>]

\* expandVars without the i-- of a recursive variable
AfterRecursiveNoStepBack(output, offset, newOutput, varValue) ==
    LET pv == ParseVariable(output, offset)
        i == pv.i
    IN  [out |-> newOutput \o Mid(output, offset, i - offset) \o varValue,
         offset |-> i + Len(pv.name) + 3]

\* Tree::expandVars after getRecResponse returned a non-empty varValue: the
\* local state (offset, newOutput) after the substitution
AfterRecursive(output, offset, newOutput, varValue) ==
    LET pv == ParseVariable(output, offset)
        i == pv.i - 1
    IN  [out |-> newOutput \o Mid(output, offset, i - offset) \o varValue,
         offset |-> i + Len(pv.name) + 3]

RECURSIVE getValidOutput(_, _, _, _, _, _, _)
\* Tree::getValidOutput from omap entry #idx (1-based); inTpl says that the
\* expansion of output is under way at (offset, newOutput).  Runs to the
\* return (status "null" / "result") or to the next getRecResponse ("call").
getValidOutput(omap, idx, inTpl, output, offset, newOutput, st) ==
    IF idx > Len(omap)
    THEN [status |-> "null", idx |-> idx, output |-> <<>>, offset |-> 0,
          out |-> <<>>, arg |-> <<>>, ruleId |-> 0, inputIdx |-> 0]
    ELSE LET nv == IF inTpl THEN [isNull |-> FALSE, s |-> output]
                   ELSE NextValidOutput(omap[idx].outputs, st)
         IN  IF nv.isNull
             THEN getValidOutput(omap, idx + 1, FALSE, <<>>, 0, <<>>, st)
             ELSE LET e == IF inTpl THEN expandVars(nv.s, offset, newOutput, st)
                           ELSE expandVars(nv.s, 0, <<>>, st)
                  IN  [status |-> IF e.status = "done" THEN "result" ELSE "call",
                       idx |-> idx, output |-> nv.s, offset |-> e.offset,
                       out |-> e.out, arg |-> e.arg,
                       ruleId |-> getRuleId(omap[idx].key),
                       inputIdx |-> getInputIndex(omap[idx].key)]

(***************************************************************************)
(* State.                                                                  *)
(***************************************************************************)
VARIABLES
    nodes,           \* the tree below m_root
    m_stack,         \* Tree::m_stack
    m_scoringAlg,    \* Tree::m_scoringAlg
    m_loopDetector,  \* Tree::m_loopDetector
    frames,          \* the call stack of the running query, innermost last
    ret,             \* what the last top-level call on this tree returned
    nAdds,           \* add calls so far
    ref              \* a return of an earlier call on this tree, or NoRef

vars == <<nodes, m_stack, m_scoringAlg, m_loopDetector, frames, ret, nAdds, ref>>

\* a frame of fn, its locals at their initial values
Frame(fn) ==
    [fn |-> fn, api |-> "", input |-> <<>>, words |-> <<>>, results |-> <<>>,
     stackBak |-> <<>>, scoringAlgBak |-> <<>>,
     node |-> 0, offset |-> 0, idx |-> 1,
     inTpl |-> FALSE, output |-> <<>>, pos |-> 0, newOutput |-> <<>>]

\* getResponses(input, matches) called by api, up to its call of scoredDFS
QueryFrame(api, input, stackBak, scoringAlgBak) ==
    [Frame("getResponses") EXCEPT !.api = api, !.input = input,
        !.words = ParseUserInput(input),
        !.stackBak = stackBak, !.scoringAlgBak = scoringAlgBak]

\* scoredDFS(results, root, words, offset)
DFSFrame(root, offset) ==
    [Frame("scoredDFS") EXCEPT !.node = root, !.offset = offset]

\* handleEndWord(results, node, offset) inside getValidOutput(node)
EndFrame(node, offset) ==
    [Frame("handleEndWord") EXCEPT !.node = node, !.offset = offset]

Idle == frames = <<>>

Top == frames[Len(frames)]

\* the frame of the getResponses call that the innermost frame belongs to
QueryIdx == Max({i \in 1..Len(frames) : frames[i].fn = "getResponses"})

\* ret before any call has returned
NoReturn ==
    [api |-> "", input |-> <<>>, found |-> <<>>, results |-> <<>>,
     responses |-> <<>>, matches |-> <<>>, resp |-> <<>>, respMatches |-> <<>>]

\* ref while no return is kept
NoRef == [ret |-> NoReturn, later |-> FALSE, other |-> FALSE]

(***************************************************************************)
(* Rules and utterances the behaviours draw from.                          *)
(***************************************************************************)
VarTok(name) == <<"[">> \o name \o <<"]">>

RecRef(name) == <<"r">> \o VarTok(name)

Always == [var |-> <<>>, val |-> <<>>]

\* a rule with one unconditional output
Rule1(id, inputs, tpl) ==
    [id |-> id, input |-> inputs, output |-> << [cond |-> Always, tpl |-> tpl] >>]

X == <<"x">>

Rules ==
    { Rule1(1, << JoinWords(<< <<"p">>, STAR_OP >>) >>, <<"h">>),
      Rule1(2, << JoinWords(<< <<"p">>, STAR_OP, <<"q">> >>) >>, <<"s">>),
      Rule1(3, << JoinWords(<< <<"p">>, PLUS_OP, <<"q">> >>) >>, <<"t">>),
      Rule1(4, << JoinWords(<< <<"p">>, VarTok(X) >>) >>,
               JoinWords(<< <<"i">>, RecRef(X), <<"k">> >>)),
      Rule1(5, << <<"q">> >>, JoinWords(<< <<"h">>, <<"t">> >>)),
      Rule1(6, << VarTok(X) >>, RecRef(X)),
      [id |-> 7, input |-> << JoinWords(<< VarTok(X), <<"q">> >>) >>,
       output |-> << [cond |-> [var |-> X, val |-> <<"Q">>], tpl |-> <<"c">>],
                     [cond |-> Always, tpl |-> JoinWords(<< <<"g">>, VarTok(X) >>)] >>],
      Rule1(8, << JoinWords(<< <<"p">>, <<"q">> >>) >>, RecRef(X)),
      Rule1(9, << <<>>, STAR_OP, VarTok(X), <<"q">>, <<"?">> >>, <<"n">>),
      [id |-> 10, input |-> << JoinWords(<< <<"p">>, <<"q">> >>) >>,
       output |-> << [cond |-> [var |-> X, val |-> <<"Q">>], tpl |-> <<"c">>] >>],
      Rule1(11, << JoinWords(<< <<"p">>, <<"q">> >>) >>, <<"l">>) }

UserWords == { <<"p">>, <<"Q">> }

RECURSIVE SeqsUpTo(_, _)
\* the lists over S of length 0 .. n
SeqsUpTo(S, n) ==
    IF n = 0 THEN { <<>> }
    ELSE LET shorter == SeqsUpTo(S, n - 1)
         IN  shorter \cup { Append(l, x) : l \in shorter, x \in S }

\* the utterances over UserWords, and one that tokenises to nothing
Utterances == { JoinWords(l) : l \in SeqsUpTo(UserWords, MaxUtter) } \cup { <<"?">> }

(***************************************************************************)
(* Actions.                                                                *)
(***************************************************************************)
Init ==
    /\ nodes = << RootNode >>
    /\ m_stack = <<>>
    /\ m_scoringAlg = <<>>
    /\ m_loopDetector = {}
    /\ frames = <<>>
    /\ ret = NoReturn
    /\ nAdds = 0
    /\ ref = NoRef

\* Tree::add(rule)
Add ==
    /\ Idle
    /\ nAdds < MaxRules
    /\ \E rule \in Rules : nodes' = add(nodes, rule)
    /\ nAdds' = nAdds + 1
    /\ ret' = NoReturn
    /\ ref' = NoRef
    /\ UNCHANGED <<m_stack, m_scoringAlg, m_loopDetector, frames>>

\* a top-level call of Tree::getResponse(input, matches), up to the call of
\* scoredDFS in the getResponses(input, tmpMatches) that it makes
GetResponse ==
    /\ Idle
    /\ \E input \in Utterances :
          /\ frames' = << QueryFrame("getResponse", input, <<>>, <<>>),
                          DFSFrame(ROOT, 0) >>
          /\ ref' = IF ref = NoRef THEN ref
                    ELSE [ref EXCEPT !.later = TRUE,
                                     !.other = @ \/ input # ref.ret.input]
    /\ ret' = NoReturn
    /\ UNCHANGED <<nodes, m_stack, m_scoringAlg, m_loopDetector, nAdds>>

\* scoredDFS returns: no word left, or the foreach is over
DFSReturn ==
    /\ ~Idle
    /\ Top.fn = "scoredDFS"
    /\ \/ Top.offset >= Len(frames[QueryIdx].words)
       \/ Top.idx > Len(nodes[Top.node].childs)
    /\ frames' = SubSeq(frames, 1, Len(frames) - 1)
    /\ UNCHANGED <<nodes, m_stack, m_scoringAlg, m_loopDetector, ret, nAdds, ref>>

\* scoredDFS without the else branch of its update
DFSUpdateVariablesOnly(st, n, offset) ==
    IF n.kind = "variable" THEN StackUpdate(st, n.word, offset) ELSE st

\* the variable stack after the update of one foreach iteration of scoredDFS
DFSUpdate(st, n, offset) ==
    IF n.kind = "variable" THEN StackUpdate(st, n.word, offset)
    ELSE StackUpdate(st, <<>>, offset)

\* scoredDFS capturing the normalised word
DFSCapturedNormalised(word) == word.normWord

\* the word that scoredDFS captures at a matched position
DFSCaptured(word) == word.origWord

\* scoredDFS(..., offset) recursing below a matched node
DFSNextOffset(offset) == offset + 1

\* handleEndWord without its test: no pair is ever found in the detector
LoopNeverDetected(detector, p) == FALSE

\* the test of handleEndWord on the loop detector
LoopDetected(detector, p) == p \in detector

\* handleEndWord without m_loopDetector.remove(p)
LoopNeverRemoved(detector, p) == detector

\* the detector after m_loopDetector.remove(p) at the end of handleEndWord
LoopRemoved(detector, p) == detector \ {p}

\* one iteration of the foreach of scoredDFS, up to the call it makes
DFSVisit ==
    /\ ~Idle
    /\ Top.fn = "scoredDFS"
    /\ Top.offset < Len(frames[QueryIdx].words)
    /\ Top.idx <= Len(nodes[Top.node].childs)
    /\ LET words == frames[QueryIdx].words
           offset == Top.offset
           node == nodes[Top.node].childs[Top.idx]
           word == words[offset + 1]
           matchWeight == MatchPolicy(nodes[node], word)
           st1 == DFSUpdate(m_stack, nodes[node], offset)
           here == [frames EXCEPT ![Len(frames)].idx = @ + 1]
       IN  IF matchWeight > 0
           THEN /\ m_stack' = StackCapture(st1, DFSCaptured(word), offset)
                /\ m_scoringAlg' = updateScore(m_scoringAlg, offset, matchWeight)
                /\ IF offset + 1 < Len(words)
                   THEN /\ frames' = Append(here, DFSFrame(node, DFSNextOffset(offset)))
                        /\ UNCHANGED m_loopDetector
                   ELSE IF ~LoopDetected(m_loopDetector, <<node, offset>>)
                        THEN /\ m_loopDetector' = m_loopDetector \cup {<<node, offset>>}
                             /\ frames' = Append(here, EndFrame(node, offset))
                        ELSE /\ frames' = here
                             /\ UNCHANGED m_loopDetector
           ELSE /\ m_stack' = st1
                /\ frames' = here
                /\ UNCHANGED <<m_scoringAlg, m_loopDetector>>
    /\ UNCHANGED <<nodes, ret, nAdds, ref>>

\* getValidOutput in the innermost handleEndWord, run to its next event
EndRun ==
    getValidOutput(nodes[Top.node].omap, Top.idx, Top.inTpl, Top.output,
                   Top.pos, Top.newOutput, m_stack)

\* handleEndWord without r.score = m_scoringAlg->currentScore()
EndResultNoScore(r, alg) ==
    [output |-> r.out, ruleId |-> r.ruleId, inputIdx |-> r.inputIdx, score |-> 0]

\* the Result that handleEndWord appends
EndResult(r, alg) ==
    [output |-> r.out, ruleId |-> r.ruleId, inputIdx |-> r.inputIdx,
     score |-> currentScore(alg)]

\* handleEndWord: getValidOutput found nothing; the pair leaves the detector
EndNoOutput ==
    /\ ~Idle
    /\ Top.fn = "handleEndWord"
    /\ EndRun.status = "null"
    /\ m_loopDetector' = LoopRemoved(m_loopDetector, <<Top.node, Top.offset>>)
    /\ frames' = SubSeq(frames, 1, Len(frames) - 1)
    /\ UNCHANGED <<nodes, m_stack, m_scoringAlg, ret, nAdds, ref>>

\* handleEndWord: getValidOutput returned a result; it is scored and appended
EndOutput ==
    /\ ~Idle
    /\ Top.fn = "handleEndWord"
    /\ EndRun.status = "result"
    /\ m_loopDetector' = LoopRemoved(m_loopDetector, <<Top.node, Top.offset>>)
    /\ frames' = SubSeq([frames EXCEPT ![QueryIdx].results =
                            Append(@, EndResult(EndRun, m_scoringAlg))],
                        1, Len(frames) - 1)
    /\ UNCHANGED <<nodes, m_stack, m_scoringAlg, ret, nAdds, ref>>

\* expandVars reaches a recursive variable: getRecResponse pushes a new context
\* and calls getResponse
EndRecurse ==
    /\ ~Idle
    /\ Top.fn = "handleEndWord"
    /\ EndRun.status = "call"
    /\ frames' = [frames EXCEPT ![Len(frames)] =
                      [@ EXCEPT !.idx = EndRun.idx, !.inTpl = TRUE,
                                !.output = EndRun.output, !.pos = EndRun.offset,
                                !.newOutput = EndRun.out]]
                 \o << QueryFrame("getRecResponse", EndRun.arg, m_stack, m_scoringAlg),
                       DFSFrame(ROOT, 0) >>
    /\ m_stack' = <<>>
    /\ m_scoringAlg' = <<>>
    /\ UNCHANGED <<nodes, m_loopDetector, ret, nAdds, ref>>

\* getResponses without its qSort
Unsorted(results) == results

\* the rest of getResponses after scoredDFS: the sorted results
Sorted(results) == qSort(results)

Responses(sorted) == [i \in 1..Len(sorted) |-> sorted[i].output]

Matches(sorted) == [i \in 1..Len(sorted) |-> <<sorted[i].ruleId, sorted[i].inputIdx>>]

\* getResponse taking the last entry instead of the first
getResponseLast(responses, tmpMatches) ==
    IF Len(responses) > 0 /\ Len(tmpMatches) > 0
    THEN [resp |-> responses[Len(responses)], matches |-> << tmpMatches[Len(tmpMatches)] >>]
    ELSE [resp |-> <<>>, matches |-> <<>>]

\* Tree::getResponse on what its call of getResponses returned
getResponse(responses, tmpMatches) ==
    IF Len(responses) > 0 /\ Len(tmpMatches) > 0
    THEN [resp |-> responses[1], matches |-> << tmpMatches[1] >>]
    ELSE [resp |-> <<>>, matches |-> <<>>]

\* getResponses returns to the top-level getResponse, which returns; ret holds
\* the results of scoredDFS as found and as sorted, what getResponses returned
\* (responses, matches) and what getResponse returned (resp, respMatches)
QueryReturn ==
    /\ ~Idle
    /\ Top.fn = "getResponses"
    /\ Top.api = "getResponse"
    /\ LET sorted == Sorted(Top.results)
           one == getResponse(Responses(sorted), Matches(sorted))
       IN  ret' = [api |-> Top.api, input |-> Top.input,
                   found |-> Top.results, results |-> sorted,
                   responses |-> Responses(sorted), matches |-> Matches(sorted),
                   resp |-> one.resp, respMatches |-> one.matches]
    /\ frames' = <<>>
    /\ UNCHANGED <<nodes, m_stack, m_scoringAlg, m_loopDetector, nAdds, ref>>

\* getValidOutput leaving its loop when an expansion fails
ResumedGiveUp(f, varValue) ==
    IF varValue = <<>>
    THEN [f EXCEPT !.idx = @ + 1024, !.inTpl = FALSE, !.output = <<>>, !.pos = 0,
                   !.newOutput = <<>>]
    ELSE LET a == AfterRecursive(f.output, f.pos, f.newOutput, varValue)
         IN  [f EXCEPT !.pos = a.offset, !.newOutput = a.out]

\* the handleEndWord frame below a returning getRecResponse, expandVars resumed
\* with varValue
Resumed(f, varValue) ==
    IF varValue = <<>>
    THEN [f EXCEPT !.idx = @ + 1, !.inTpl = FALSE, !.output = <<>>, !.pos = 0,
                   !.newOutput = <<>>]
    ELSE LET a == AfterRecursive(f.output, f.pos, f.newOutput, varValue)
         IN  [f EXCEPT !.pos = a.offset, !.newOutput = a.out]

\* getRecResponse leaving the scoring algorithm of the nested query in place
PopContextKeepScore(stackBak, scoringAlgBak, stack, alg) ==
    [stack |-> stackBak, alg |-> alg]

\* the context that getRecResponse installs before it returns
PopContext(stackBak, scoringAlgBak, stack, alg) ==
    [stack |-> stackBak, alg |-> scoringAlgBak]

\* getResponse returns to getRecResponse, which pops the context and returns
\* to expandVars
RecReturn ==
    /\ ~Idle
    /\ Top.fn = "getResponses"
    /\ Top.api = "getRecResponse"
    /\ LET sorted == Sorted(Top.results)
           one == getResponse(Responses(sorted), Matches(sorted))
           below == Len(frames) - 1
       IN  frames' = [SubSeq(frames, 1, below) EXCEPT
                         ![below] = Resumed(@, one.resp)]
    /\ LET ctx == PopContext(Top.stackBak, Top.scoringAlgBak, m_stack, m_scoringAlg)
       IN  /\ m_stack' = ctx.stack
           /\ m_scoringAlg' = ctx.alg
    /\ UNCHANGED <<nodes, m_loopDetector, ret, nAdds, ref>>

\* the last return is kept for comparison with later calls on the same tree
Remember ==
    /\ Idle
    /\ ret # NoReturn
    /\ ref = NoRef
    /\ ref' = [ret |-> ret, later |-> FALSE, other |-> FALSE]
    /\ UNCHANGED <<nodes, m_stack, m_scoringAlg, m_loopDetector, frames, ret, nAdds>>

Next ==
    \/ Add
    \/ GetResponse
    \/ DFSVisit
    \/ DFSReturn
    \/ EndNoOutput
    \/ EndOutput
    \/ EndRecurse
    \/ QueryReturn
    \/ RecReturn

Spec == Init /\ [][Next]_vars

\* the behaviours of Spec with an earlier return kept for comparison
NextDet == Next \/ Remember

SpecDet == Init /\ [][NextDet]_vars

\* the steps of a running query
Step ==
    \/ DFSVisit
    \/ DFSReturn
    \/ EndNoOutput
    \/ EndOutput
    \/ EndRecurse
    \/ QueryReturn
    \/ RecReturn

\* a running query is not suspended for ever: its code runs to completion
FairSpec == Spec /\ WF_vars(Step)

(***************************************************************************)
(* Rules whose inputs sit at chosen input indices, for the omap keys.      *)
(***************************************************************************)
\* rule ids up to the largest one whose key fits the 32-bit integers of TLC
KeyRuleIds == { 0, 1, 2, Pow2(21) - 1 }

\* input indices at both ends of the range of the low MAX_INPUT_IDX_SIZE bits
KeyInputIdxs == { 0, 1, INPUT_IDX_MASK - 1, INPUT_IDX_MASK }

RECURSIVE Digits(_)
\* the decimal digits of n
Digits(n) ==
    LET d == <<"0", "1", "2", "3", "4", "5", "6", "7", "8", "9">>[(n % 10) + 1]
    IN  IF n < 10 THEN <<d>> ELSE Append(Digits(n \div 10), d)

\* the rule id whose only non-empty input is input #idx; its output names the
\* pair (id, idx)
IndexedRule(id, idx) ==
    Rule1(id, [i \in 1..(idx + 1) |-> IF i = idx + 1 THEN <<"q">> ELSE <<>>],
          Digits(id) \o <<" ">> \o Digits(idx))

\* Tree::add(rule) of a rule with an input at a chosen index
AddIndexed ==
    /\ Idle
    /\ nAdds < MaxKeyed
    /\ \E id \in KeyRuleIds, idx \in KeyInputIdxs :
           nodes' = add(nodes, IndexedRule(id, idx))
    /\ nAdds' = nAdds + 1
    /\ ret' = NoReturn
    /\ ref' = NoRef
    /\ UNCHANGED <<m_stack, m_scoringAlg, m_loopDetector, frames>>

\* the behaviours that only insert such rules
SpecKey == Init /\ [][AddIndexed]_vars


(***************************************************************************)
(* Vocabulary of the properties.                                           *)
(***************************************************************************)
\* rule id has an output somewhere in the tree
HasRule(id) ==
    \E n \in 1..Len(nodes) : \E e \in 1..Len(nodes[n].omap) :
        getRuleId(nodes[n].omap[e].key) = id

\* a top-level call has returned and nothing has changed since
Returned == Idle /\ ret # NoReturn

\* utterances
Utter(l) == JoinWords(l)

\* rule id is among the matches returned
Matched(id) == \E k \in 1..Len(ret.matches) : ret.matches[k][1] = id

\* the frames of getResponses calls, of handleEndWord calls
QueryFrames == {i \in 1..Len(frames) : frames[i].fn = "getResponses"}

EndFrames == {i \in 1..Len(frames) : frames[i].fn = "handleEndWord"}

\* the words of the query that frame i belongs to
WordsOf(i) == frames[Max({q \in QueryFrames : q <= i})].words

\* the innermost scoredDFS is about to enter handleEndWord(node, offset) for a
\* pair that is in the loop detector
LoopTrip ==
    /\ ~Idle
    /\ Top.fn = "scoredDFS"
    /\ Top.offset + 1 = Len(frames[QueryIdx].words)
    /\ Top.idx <= Len(nodes[Top.node].childs)
    /\ LET node == nodes[Top.node].childs[Top.idx]
       IN  /\ MatchPolicy(nodes[node], frames[QueryIdx].words[Top.offset + 1]) > 0
           /\ <<node, Top.offset>> \in m_loopDetector


(***************************************************************************)
(* Termination of a query.                                                 *)
(***************************************************************************)
\* C1: getResponses terminates.  Every scoredDFS call below another is one
\* offset further and stays inside the utterance, a nested query (expandVars ->
\* getRecResponse -> getResponse) never has more words than the query it was
\* started from, and the handleEndWord calls on the call stack are for
\* pairwise different (node, offset) pairs, so that the nesting of queries is
\* bounded by the number of such pairs.
C1_Termination ==
    /\ \A i \in 1..Len(frames) :
          frames[i].fn = "scoredDFS" =>
             /\ i > 1
             /\ IF frames[i - 1].fn = "getResponses"
                THEN frames[i].offset = 0 /\ frames[i].node = ROOT
                ELSE /\ frames[i - 1].fn = "scoredDFS"
                     /\ frames[i].offset = frames[i - 1].offset + 1
                     /\ frames[i].offset < Len(WordsOf(i))
    /\ \A i \in EndFrames :
          /\ frames[i - 1].fn = "scoredDFS"
          /\ frames[i].offset = frames[i - 1].offset
          /\ frames[i].offset = Len(WordsOf(i)) - 1
    /\ \A i \in QueryFrames :
          i > 1 => /\ frames[i - 1].fn = "handleEndWord"
                   /\ Len(frames[i].words) <= Len(WordsOf(i - 1))
    /\ \A i, j \in EndFrames :
          i # j => <<frames[i].node, frames[i].offset>> # <<frames[j].node, frames[j].offset>>
    /\ ~Idle => Cardinality(QueryFrames) <= (Len(nodes) - 1) * Len(frames[1].words) + 1

\* a nested query with the utterance of the outer one has followed a
\* self-loop edge and reaches the (node, offset) pair of the outer
\* handleEndWord
C1_Witness ==
    /\ LoopTrip
    /\ Cardinality(QueryFrames) >= 2
    /\ Top.offset >= 1
    /\ nodes[Top.node].childs[Top.idx] = Top.node
    /\ \A i \in QueryFrames : frames[i].words = frames[1].words

\* every query that is started returns (checked under FairSpec)
Termination == (~Idle) ~> Idle

(***************************************************************************)
(* The returned list.                                                      *)
(***************************************************************************)
\* C2: the list returned by getResponses is non-increasing in score.
C2_ScoreOrdering ==
    Returned =>
        /\ \A i, j \in 1..Len(ret.results) :
              i < j => ret.results[i].score >= ret.results[j].score
        /\ Len(ret.responses) = Len(ret.results)

\* scoredDFS found a lower-scored result before a higher-scored one
C2_Witness ==
    /\ Returned
    /\ \E i, j \in 1..Len(ret.found) :
          i < j /\ ret.found[i].score < ret.found[j].score

\* C3: on an unchanged tree a call returns the same responses and the same
\* match list as an earlier call with the same input, whatever was evaluated
\* in between.
C3_Determinism ==
    (Returned /\ ref # NoRef /\ ret.input = ref.ret.input) =>
        /\ ret.responses = ref.ret.responses
        /\ ret.matches = ref.ret.matches

\* the same input was evaluated again after a call with another input, and
\* the result rests on captured variables
C3_Witness ==
    /\ Returned
    /\ ref.later /\ ref.other
    /\ ret.input = ref.ret.input
    /\ ret.responses # <<>>
    /\ \E e \in 1..Len(m_stack) : m_stack[e].name # <<>> /\ m_stack[e].value # <<>>

\* C4: getResponse returns the first entry of getResponses, or an empty string
\* and an empty match list when there is none; responses and matches have the
\* same length and position k of both is result k.
C4_GetResponseFirst ==
    Returned =>
        /\ Len(ret.responses) = Len(ret.matches)
        /\ \A k \in 1..Len(ret.responses) :
              /\ ret.responses[k] = ret.results[k].output
              /\ ret.matches[k] = <<ret.results[k].ruleId, ret.results[k].inputIdx>>
        /\ IF ret.responses # <<>>
           THEN ret.resp = ret.responses[1] /\ ret.respMatches = << ret.matches[1] >>
           ELSE ret.resp = <<>> /\ ret.respMatches = <<>>

\* getResponses returned several entries and the first differs from the last
C4_Witness ==
    /\ Returned
    /\ Len(ret.responses) >= 2
    /\ ret.matches[1] # ret.matches[Len(ret.matches)]
    /\ ret.resp = ret.responses[1]

(***************************************************************************)
(* Wildcards.                                                              *)
(***************************************************************************)
\* C5: with the rule "p *" -> "h" (rule 1) in the tree, the utterance "p"
\* alone and every utterance "p" followed by further tokens yield the output
\* of that rule.
C5_TrailingWildcard ==
    (Returned /\ HasRule(1) /\ ParseUserInput(ret.input) # <<>>
              /\ ParseUserInput(ret.input)[1].normWord = <<"p">>) =>
        \E k \in 1..Len(ret.matches) :
            ret.matches[k] = <<1, 0>> /\ ret.responses[k] = <<"h">>

\* the prefix alone was answered by rule 1, from the omap of the node above
\* the trailing *
C5_Witness ==
    /\ Returned
    /\ ret.input = Utter(<< <<"p">> >>)
    /\ ret.responses = << <<"h">> >>
    /\ ret.matches = << <<1, 0>> >>


\* C6: with the rule "p * q" -> "s" (rule 2) in the tree, the utterance
\* "p Q" (the * consuming no token) yields the output of that rule, whatever
\* other rules were added and in whatever order.
C6_StarZeroTokens ==
    (Returned /\ HasRule(2) /\ ret.input = Utter(<< <<"p">>, <<"Q">> >>)) =>
        \E k \in 1..Len(ret.matches) :
            ret.matches[k] = <<2, 0>> /\ ret.responses[k] = <<"s">>

\* C7: the rule "p + q" -> "t" (rule 3) never yields a result for the
\* utterance "p Q", whatever other rules are in the tree.
C7_PlusOneOrMore ==
    (Returned /\ HasRule(3) /\ ret.input = Utter(<< <<"p">>, <<"Q">> >>)) =>
        ~Matched(3)

(***************************************************************************)
(* Expansion.                                                              *)
(***************************************************************************)
\* the name of the reference at which the expansion in frame f is suspended
PendingName(f) == ParseVariable(f.output, f.pos).name

\* C8: a recursive reference to v is replaced by the response of a nested
\* query on the capture of v, the text around it kept: with "p [x]" ->
\* "i r[x] k" (rule 4) and "q" -> "h t" (rule 5), "p Q" yields "i h t k"; every
\* nested query is on the capture of the referenced variable; every output of
\* rule 4 is "i ", a non-empty response, " k".
C8_RecursiveExpansion ==
    /\ (Returned /\ HasRule(4) /\ HasRule(5)
                 /\ ret.input = Utter(<< <<"p">>, <<"Q">> >>)) =>
          \E k \in 1..Len(ret.matches) :
              /\ ret.matches[k] = <<4, 0>>
              /\ ret.responses[k] = Utter(<< <<"i">>, <<"h">>, <<"t">>, <<"k">> >>)
    /\ \A i \in QueryFrames :
          i > 1 => frames[i].input = StackValue(frames[i].stackBak, PendingName(frames[i - 1]))
    /\ Returned =>
          \A k \in 1..Len(ret.matches) :
              ret.matches[k] = <<4, 0>> =>
                 LET r == ret.responses[k]
                 IN  /\ Len(r) >= 5
                     /\ SubSeq(r, 1, 2) = <<"i", " ">>
                     /\ SubSeq(r, Len(r) - 1, Len(r)) = <<" ", "k">>
                     /\ r[3] # " " /\ r[Len(r) - 2] # " "

\* "p Q" was answered "i h t k" by rule 4
C8_Witness ==
    /\ Returned
    /\ ret.input = Utter(<< <<"p">>, <<"Q">> >>)
    /\ ret.matches = << <<4, 0>> >>
    /\ ret.resp = Utter(<< <<"i">>, <<"h">>, <<"t">>, <<"k">> >>)

\* the tree holds the single rule "[x]" -> "r[x]" (rule 6)
OnlyRule6 == nAdds = 1 /\ HasRule(6)

\* C9: when handleEndWord is entered for a (node, offset) pair that is in the
\* loop detector, nothing is appended, no expansion is started, the detector
\* is left as it is and the foreach of scoredDFS goes on with the next sibling;
\* the single rule "[x]" -> "r[x]" yields an empty list for any utterance.
C9_LoopProtection ==
    [][ /\ LoopTrip => /\ frames' = [frames EXCEPT ![Len(frames)].idx = @ + 1]
                       /\ m_loopDetector' = m_loopDetector
        /\ (Returned /\ OnlyRule6)' => (ret.responses = <<>> /\ ret.resp = <<>>)'
      ]_vars

\* the loop detector trips in a nested query while a sibling is still to be
\* explored
C9_Witness ==
    /\ LoopTrip
    /\ Top.idx < Len(nodes[Top.node].childs)
    /\ Top.node = ROOT

\* "Q" was evaluated on the single rule "[x]" -> "r[x]"
C9_WitnessS5 ==
    /\ Returned /\ OnlyRule6
    /\ ret.input = Utter(<< <<"Q">> >>)

(***************************************************************************)
(* Captures.                                                               *)
(***************************************************************************)
\* the node that the path of the innermost handleEndWord matched at position
\* k (0-based) of its utterance
PathNode(k) == frames[QueryIdx + 2 + k].node

\* the original tokens at the positions that the path matched with the
\* VariableNode named name, in input order
PathCapture(name) ==
    LET words == frames[QueryIdx].words
        at == SelectSeq([k \in 1..Len(words) |-> k],
                        LAMBDA k : /\ nodes[PathNode(k - 1)].kind = "variable"
                                   /\ nodes[PathNode(k - 1)].word = name)
    IN  JoinWords([j \in 1..Len(at) |-> words[at[j]].origWord])

\* C10: while handleEndWord evaluates conditions and expands templates for a
\* path, stack.value(name) is the concatenation of the original tokens at the
\* positions the path matched with the VariableNode named name.
C10_CaptureConsistency ==
    (~Idle /\ Top.fn = "handleEndWord") =>
        \A name \in {X, <<"y">>} : StackValue(m_stack, name) = PathCapture(name)

\* an expansion resumed after a nested query, on a path that captured under
\* x after an earlier sibling had been tried
C10_Witness ==
    /\ ~Idle /\ Top.fn = "handleEndWord"
    /\ Top.pos > 0
    /\ StackValue(m_stack, X) # <<>>
    /\ frames[Len(frames) - 1].idx > 2


(***************************************************************************)
(* Ranking.                                                                *)
(***************************************************************************)
\* the rule ids that have an output somewhere in the tree
RuleIds ==
    UNION { {getRuleId(nodes[n].omap[e].key) : e \in 1..Len(nodes[n].omap)} :
                n \in 1..Len(nodes) }

\* C11: in a tree with the rules "p q" -> "l" (rule 11) and "p *" -> "h"
\* (rule 1), added in either order, the utterance "p Q" matches both and the
\* literal rule comes first: getResponses returns "l", "h" and getResponse
\* returns "l" with the match (11, 0).
C11_ScoreRanking ==
    (Returned /\ RuleIds = {1, 11} /\ ret.input = Utter(<< <<"p">>, <<"Q">> >>)) =>
        /\ ret.responses = << <<"l">>, <<"h">> >>
        /\ ret.matches = << <<11, 0>>, <<1, 0>> >>
        /\ ret.results[1].score > ret.results[2].score
        /\ ret.resp = <<"l">>
        /\ ret.respMatches = << <<11, 0>> >>

\* the wildcard rule was found first and the literal rule was returned first
C11_Witness ==
    /\ Returned /\ RuleIds = {1, 11}
    /\ ret.input = Utter(<< <<"p">>, <<"Q">> >>)
    /\ Len(ret.found) = 2
    /\ ret.found[1].ruleId = 1
    /\ ret.resp = <<"l">>


RECURSIVE StableByScore(_)
\* l ordered by score, highest first, the entries of one score in the order
\* they have in l
StableByScore(l) ==
    IF l = <<>> THEN <<>>
    ELSE LET m == Max({l[i].score : i \in 1..Len(l)})
         IN  SelectSeq(l, LAMBDA r : r.score = m)
                \o StableByScore(SelectSeq(l, LAMBDA r : r.score # m))

\* C12: the list returned by getResponses is the list of results that
\* scoredDFS appended, ordered by score, results of equal score in the order
\* in which they were appended.
C12_DiscoveryOrder ==
    Returned => ret.results = StableByScore(ret.found)


(***************************************************************************)
(* No match.                                                               *)
(***************************************************************************)
\* the last call returned empty lists and an empty string
NothingReturned ==
    /\ ret.found = <<>>
    /\ ret.responses = <<>> /\ ret.matches = <<>>
    /\ ret.resp = <<>> /\ ret.respMatches = <<>>

\* the normalised tokens of the utterance of the last call
RetTokens ==
    LET words == Lemmatize(ret.input)
    IN  [i \in 1..Len(words) |-> words[i].normWord]

\* C13: a query that matches no rule returns empty lists and an empty string:
\* on a tree without rules; for an utterance that tokenises to nothing, also
\* when a "*" rule is in the tree; on a tree whose only rule is the literal "q"
\* (rule 5) or "p q" (rule 11) for every other utterance.  Every call returns,
\* with lists of the same length, and an empty list goes with an empty string.
C13_NoMatch ==
    Returned =>
        /\ nAdds = 0 => NothingReturned
        /\ ret.input \in { <<>>, <<"?">> } => NothingReturned
        /\ (RuleIds = {5} /\ RetTokens # << <<"q">> >>) => NothingReturned
        /\ (RuleIds = {11} /\ RetTokens # << <<"p">>, <<"q">> >>) => NothingReturned
        /\ ret.api = "getResponse"
        /\ Len(ret.responses) = Len(ret.matches)
        /\ ret.responses = <<>> => (ret.resp = <<>> /\ ret.respMatches = <<>>)

\* an utterance of symbols only was evaluated on a tree with the rule "*"
C13_Witness ==
    /\ Returned
    /\ ret.input = <<"?">>
    /\ HasRule(9)
    /\ NothingReturned


(***************************************************************************)
(* Shape of the tree.                                                      *)
(***************************************************************************)
\* the positions of the child list of node n that hold a node of kind k
ChildsOfKind(n, k) ==
    {i \in 1..Len(nodes[n].childs) : nodes[nodes[n].childs[i]].kind = k}

\* C14: in every child list the WordNodes carry pairwise different words and
\* there is at most one WildcardNode.
C14_UniqueChildren ==
    \A n \in 1..Len(nodes) :
        /\ \A i, j \in ChildsOfKind(n, "word") :
              i # j => nodes[nodes[n].childs[i]].word # nodes[nodes[n].childs[j]].word
        /\ Cardinality(ChildsOfKind(n, "wildcard")) <= 1


\* the nodes that occur in the child list of node n
ChildSet(n) == {nodes[n].childs[i] : i \in 1..Len(nodes[n].childs)}

\* C15: every child of a WildcardNode with min = 0 is also a child of the
\* parent of that WildcardNode.
C15_ZeroHopShortcut ==
    \A n \in 1..Len(nodes) :
        (nodes[n].kind = "wildcard" /\ nodes[n].min = 0) =>
            ChildSet(n) \subseteq ChildSet(nodes[n].parent)


\* the WordNode p below the root, or 0
PNode == FindWordChild(nodes, MkWord(<<"p">>), ROOT)

\* a rule with a + below p and a rule with a * below p are in the tree
PlusAndStar == HasRule(3) /\ (HasRule(1) \/ HasRule(2))

\* below p there is one WildcardNode and its min is 0
OneZeroMinWildcard ==
    /\ Cardinality(ChildsOfKind(PNode, "wildcard")) = 1
    /\ \A i \in ChildsOfKind(PNode, "wildcard") : nodes[nodes[PNode].childs[i]].min = 0

\* C16: once "p + q" and a rule with "p *" are in the tree, whichever was
\* added first, p has exactly one WildcardNode child and its min is 0; no step
\* takes the min of a WildcardNode from 0 back to 1.
C16_StarSubsumesPlus ==
    [][ /\ \A n \in 1..Len(nodes) :
              (nodes[n].kind = "wildcard" /\ nodes[n].min = 0) => nodes'[n].min = 0
        /\ (PlusAndStar => OneZeroMinWildcard)'
      ]_vars

\* the WildcardNode was created by a + and lowered by a later *
C16_Witness ==
    /\ PlusAndStar
    /\ \E n \in 1..Len(nodes) :
          nodes[n].kind = "wildcard" /\ nodes[n].word = PLUS_OP /\ nodes[n].min = 0


\* C17: the omap of the root is empty.
C17_RootNoOutput == nodes[ROOT].omap = <<>>

\* the rule with the inputs "", "*", "[x]", "q", "?" (rule 9) was added: its "*"
\* ends at a WildcardNode directly below the root, which holds the output
C17_Witness ==
    /\ HasRule(9)
    /\ nodes[ROOT].omap = <<>>
    /\ \E i \in ChildsOfKind(ROOT, "wildcard") :
          nodes[nodes[ROOT].childs[i]].omap # <<>>


(***************************************************************************)
(* Context of a nested query.                                              *)
(***************************************************************************)
\* the node that the path of query q (a getResponses frame) matched at
\* position k (0-based), once that path has reached handleEndWord
PathNodeOf(q, k) == frames[q + 2 + k].node

\* the variable stack that the path of query q builds: position k is owned by
\* the variable of the node matched there (or by nobody) and holds the token
PathStackOf(q) ==
    [k \in 1..Len(frames[q].words) |->
        LET n == nodes[PathNodeOf(q, k - 1)]
        IN  [name |-> IF n.kind = "variable" THEN n.word ELSE <<>>,
             offset |-> k - 1,
             value |-> frames[q].words[k].origWord]]

\* the weights that the path of query q hands to the scoring algorithm
PathWeightsOf(q) ==
    [k \in 1..Len(frames[q].words) |->
        MatchPolicy(nodes[PathNodeOf(q, k - 1)], frames[q].words[k])]

\* the query that started the nested query i
OuterQuery(i) == Max({j \in QueryFrames : j < i})

\* C18: getRecResponse is a scoped context switch.  Whenever handleEndWord
\* runs, before a nested query or resumed after one, the variable stack and
\* the scoring algorithm are those of its own path; what a nested query holds
\* as saved context is the stack and the scoring algorithm of the path that
\* started it; with "p [x]" -> "i r[x] k" (rule 4) and "q" -> "h t" (rule 5)
\* every result for "p Q" carries the score of the outer path and the match
\* list holds the outer rule only.
C18_ScopedContext ==
    /\ (~Idle /\ Top.fn = "handleEndWord") =>
          /\ m_stack = PathStackOf(QueryIdx)
          /\ m_scoringAlg = PathWeightsOf(QueryIdx)
    /\ \A i \in QueryFrames :
          i > 1 => /\ frames[i].stackBak = PathStackOf(OuterQuery(i))
                   /\ frames[i].scoringAlgBak = PathWeightsOf(OuterQuery(i))
    /\ (Returned /\ RuleIds = {4, 5} /\ ret.input = Utter(<< <<"p">>, <<"Q">> >>)) =>
          /\ ret.results # <<>>
          /\ \A k \in 1..Len(ret.results) :
                /\ ret.matches[k] = <<4, 0>>
                /\ ret.results[k].score = WordWeight + WildcardWeight

\* the expansion of "i r[x] k" goes on after the nested query on "Q", whose
\* scoring algorithm held one weight, has returned "h t"
C18_Witness ==
    /\ ~Idle /\ Top.fn = "handleEndWord"
    /\ Cardinality(QueryFrames) = 1
    /\ Top.newOutput = Utter(<< <<"i">>, <<"h">>, <<"t">> >>)
    /\ m_scoringAlg = << WordWeight, WildcardWeight >>
    /\ StackValue(m_stack, X) = <<"Q">>


(***************************************************************************)
(* getValidOutput.                                                         *)
(***************************************************************************)
\* omap entry e of the node of handleEndWord frame f is a candidate: its
\* template is being expanded, or its list yields a template
Candidate(f, e) ==
    \/ f.inTpl /\ e = f.idx
    \/ ~NextValidOutput(nodes[f.node].omap[e].outputs, m_stack).isNull

\* the first candidate at or after the entry that frame f has reached
FirstCandidate(f) ==
    {e \in f.idx..Len(nodes[f.node].omap) :
        /\ Candidate(f, e)
        /\ \A e2 \in f.idx..(e - 1) : ~Candidate(f, e2)}

\* a step of the innermost handleEndWord: without a candidate it returns
\* without a result; with the first candidate e it either returns with one
\* more result, which carries the rule id and input index packed in the key of
\* e, or starts the nested query of a recursive reference of e
EndStepOK ==
    (~Idle /\ Top.fn = "handleEndWord") =>
        LET f == Top
            q == QueryIdx
            n == Len(frames)
        IN  IF FirstCandidate(f) = {}
            THEN frames' = SubSeq(frames, 1, n - 1)
            ELSE \E e \in FirstCandidate(f) :
                    \/ /\ Len(frames') = n - 1
                       /\ Len(frames'[q].results) = Len(frames[q].results) + 1
                       /\ SubSeq(frames'[q].results, 1, Len(frames[q].results)) = frames[q].results
                       /\ LET r == frames'[q].results[Len(frames'[q].results)]
                          IN  /\ r.ruleId * (2 ^ MAX_INPUT_IDX_SIZE) + r.inputIdx
                                    = nodes[f.node].omap[e].key
                              /\ r.inputIdx < 2 ^ MAX_INPUT_IDX_SIZE
                    \/ /\ Len(frames') = n + 2
                       /\ frames'[n + 1].fn = "getResponses"
                       /\ frames'[n].idx = e
                       /\ frames'[q].results = frames[q].results

\* a nested query that returns nothing makes the expansion fail: the
\* handleEndWord below goes on with the next omap entry
FailStepOK ==
    (~Idle /\ Top.fn = "getResponses" /\ Top.api = "getRecResponse" /\ Top.results = <<>>) =>
        LET n == Len(frames)
        IN  /\ Len(frames') = n - 1
            /\ frames'[n - 1].idx = frames[n - 1].idx + 1
            /\ ~frames'[n - 1].inTpl

\* the utterance "p Q" was evaluated on a tree with exactly the rules S
AskedPQ(S) ==
    Returned /\ RuleIds = S /\ ret.input = Utter(<< <<"p">>, <<"Q">> >>)

\* C19: getValidOutput returns the result of the first omap entry, in key
\* order, whose list yields a template and whose expansion succeeds, with the
\* rule id and input index of its key; an entry whose expansion fails is
\* skipped; it returns null when no entry succeeds; a terminal visit appends
\* at most one result.  On the node of "p q": "r[x]" (rule 8, expansion
\* fails) or the conditional-only rule 10 (no valid template) before "l"
\* (rule 11) give the one result of rule 11; rules 8 and 10 alone give none;
\* on the node of "q", rule 5 hides input 3 of rule 9 and not its other
\* inputs.
C19_GetValidOutput ==
    [][ /\ EndStepOK
        /\ FailStepOK
        /\ (\E S \in { {8, 11}, {10, 11} } : AskedPQ(S)) =>
              (ret.matches = << <<11, 0>> >> /\ ret.responses = << <<"l">> >>)
        /\ (\E S \in { {8}, {10}, {8, 10} } : AskedPQ(S)) => ret.responses = <<>>
        /\ (Returned /\ RuleIds = {5, 9} /\ ret.input = Utter(<< <<"Q">> >>)) =>
              /\ \E k \in 1..Len(ret.matches) : ret.matches[k] = <<5, 0>>
              /\ \E k \in 1..Len(ret.matches) : ret.matches[k] = <<9, 1>>
              /\ \A k \in 1..Len(ret.matches) : ret.matches[k] # <<9, 3>>
      ]_vars

\* the expansion of the first entry of a node has failed and handleEndWord is
\* at its second entry
C19_Witness ==
    /\ ~Idle /\ Top.fn = "handleEndWord"
    /\ RuleIds = {8, 11}
    /\ Top.idx = 2 /\ ~Top.inTpl
    /\ Len(nodes[Top.node].omap) = 2


(***************************************************************************)
(* Depth of nested expansions.                                             *)
(***************************************************************************)
\* the number of getRecResponse calls on the call stack
ExpansionDepth == Cardinality({i \in QueryFrames : frames[i].api = "getRecResponse"})

\* C20: the chain of nested recursive expansions never grows beyond the cap.
C20_ExpansionCapped == ExpansionDepth <= ExpansionCap

(***************************************************************************)
(* Omap keys of rules with inputs at chosen indices (SpecKey).             *)
(***************************************************************************)
\* every omap entry decodes to the (rule id, input index) pair that its output
\* names
KeysDecode ==
    \A n \in 1..Len(nodes) : \A e \in 1..Len(nodes[n].omap) :
        \E id \in KeyRuleIds, idx \in KeyInputIdxs :
            /\ nodes[n].omap[e].outputs = IndexedRule(id, idx).output
            /\ getRuleId(nodes[n].omap[e].key) = id
            /\ getInputIndex(nodes[n].omap[e].key) = idx

\* every omap entry is still there, with its output, after the step
EntriesKept ==
    \A n \in 1..Len(nodes) : \A e \in 1..Len(nodes[n].omap) :
        \E e2 \in 1..Len(nodes'[n].omap) : nodes'[n].omap[e2] = nodes[n].omap[e]

\* C21: for rule ids that fit above the low 10 bits and input indices in
\* 0..1023, the key of every omap entry decomposes back into the rule id and the
\* input index it was built from, and no add replaces the output that another
\* (rule id, input index) pair stored.
C21_OmapKeyRoundTrip == [](KeysDecode) /\ [][EntriesKept]_vars

\* a node holds the outputs of (0, 1023) and (1, 0) under the adjacent keys 1023
\* and 1024
C21_Witness ==
    \E n \in 1..Len(nodes) :
        /\ Len(nodes[n].omap) = 2
        /\ nodes[n].omap[1].key = 1023
        /\ nodes[n].omap[1].outputs = IndexedRule(0, 1023).output
        /\ nodes[n].omap[2].key = 1024
        /\ nodes[n].omap[2].outputs = IndexedRule(1, 0).output


(***************************************************************************)
(* Rule inputs without words.                                              *)
(***************************************************************************)
\* node n is a node that addNode makes or reuses for the word w
NodeOfWord(n, w) ==
    IF IsWildcard(w) THEN nodes[n].kind = "wildcard"
    ELSE IF IsVariable(w)
    THEN /\ nodes[n].kind = "variable"
         /\ nodes[n].word = Mid(w.origWord, 1, Len(w.origWord) - 2)
    ELSE nodes[n].kind = "word" /\ nodes[n].word = w

RECURSIVE Reached(_)
\* the nodes that the child lists lead to from the root along nodes of the
\* words, in order
Reached(words) ==
    IF words = <<>> THEN {ROOT}
    ELSE LET from == Reached(SubSeq(words, 1, Len(words) - 1))
         IN  {c \in 2..Len(nodes) :
                 /\ NodeOfWord(c, words[Len(words)])
                 /\ \E q \in from : \E k \in 1..Len(nodes[q].childs) :
                        nodes[q].childs[k] = c}

\* node n ends a path of the words
Spells(n, words) == n \in Reached(words)

\* the omap of node n has an entry of input #i of rule id
HasEntry(n, id, i) ==
    \E e \in 1..Len(nodes[n].omap) :
        /\ getRuleId(nodes[n].omap[e].key) = id
        /\ getInputIndex(nodes[n].omap[e].key) = i

\* the words of the inputs of the rules, as Tree::add parses them
RuleInputWords ==
    [rule \in Rules |->
        [i \in 1..Len(rule.input) |-> ParseRuleInput(rule.input[i])]]

\* add has returned and no query has been made on the tree since
JustAdded == Idle /\ nAdds > 0 /\ ret = NoReturn

\* C22: when add has returned, an input of a rule that tokenises to no words
\* has no output anywhere in the tree and has made no node (every node but the
\* root lies on the path of an input with words of a rule of the tree), while
\* every input with words of a rule of the tree has its output, under its own
\* input index, on the node that ends its path.
C22_EmptyRuleInput ==
    JustAdded =>
        LET ids == RuleIds
            added == {rule \in Rules : rule.id \in ids}
        IN  /\ \A rule \in added : \A i \in 0..(Len(rule.input) - 1) :
                  LET words == RuleInputWords[rule][i + 1]
                  IN  IF words = <<>>
                      THEN \A n \in 1..Len(nodes) : ~HasEntry(n, rule.id, i)
                      ELSE \E n \in Reached(words) :
                              /\ HasEntry(n, rule.id, i)
                              /\ \A e \in 1..Len(nodes[n].omap) :
                                     getRuleId(nodes[n].omap[e].key) = rule.id
                                         => nodes[n].omap[e].outputs = rule.output
            /\ \A n \in 2..Len(nodes) :
                  \E rule \in added : \E i \in 1..Len(rule.input) :
                      \E k \in 1..Len(RuleInputWords[rule][i]) :
                          Spells(n, SubSeq(RuleInputWords[rule][i], 1, k))

\* the rule with the inputs "", "*", "[x]", "q", "?" (rule 9) alone: three
\* nodes below the root, with the keys of the inputs 1, 2 and 3
C22_Witness ==
    /\ JustAdded
    /\ RuleIds = {9}
    /\ Len(nodes) = 4
    /\ UNION { {nodes[n].omap[e].key : e \in 1..Len(nodes[n].omap)} :
                 n \in 1..Len(nodes) }
          = {9 * 1024 + 1, 9 * 1024 + 2, 9 * 1024 + 3}


(***************************************************************************)
(* Nodes made by an insertion.                                             *)
(***************************************************************************)
\* the non-empty token sequences that begin an input of a rule of the tree
InputPrefixes ==
    LET ids == RuleIds
    IN  UNION { UNION { {SubSeq(RuleInputWords[rule][i], 1, k) :
                            k \in 1..Len(RuleInputWords[rule][i])} :
                        i \in 1..Len(rule.input) } :
                rule \in {r \in Rules : r.id \in ids} }

\* C23: an insertion makes a node only for a token sequence that begins none
\* of the inputs already in the tree: the nodes it makes are at most the new
\* beginnings of inputs, and none when every input was in the tree already.
C23_NodeSharing ==
    [][Len(nodes') - Len(nodes) <= Cardinality(InputPrefixes' \ InputPrefixes)]_vars


(***************************************************************************)
(* The loop detector and the call stack.                                   *)
(***************************************************************************)
\* the (node, offset) pairs of the handleEndWord calls on the call stack
EndPairs == {<<frames[i].node, frames[i].offset>> : i \in EndFrames}

\* C24: the loop detector holds exactly the pairs of the handleEndWord calls
\* that are on the call stack, one pair per call, and it is empty when no call
\* is running, whatever the branches of the query did.
C24_LoopDetectorBalance ==
    /\ m_loopDetector = EndPairs
    /\ Cardinality(m_loopDetector) = Cardinality(EndFrames)
    /\ Idle => m_loopDetector = {}

\* "p" was evaluated on the single rule "[x]" -> "r[x]": the nested query
\* tripped the guard, the expansion failed, and the call has returned
C24_Witness ==
    /\ Returned /\ OnlyRule6
    /\ ret.input = Utter(<< <<"p">> >>)
    /\ ret.results = <<>>
    /\ m_loopDetector = {}

=============================================================================
